---- MODULE Spec2Model ----
(***************************************************************************)
(* Dual isosurface lookup table (IJKDUALTABLE): the configuration table,   *)
(* the connected-component analyzer FIND_COMPONENT, the table builder and  *)
(* the ambiguity routines.  Names follow src/ijkdualtable.h.  Member        *)
(* functions that the header only declares follow the library's design     *)
(* description; inline member functions follow the header line by line.    *)
(* The last part models IVOLDUAL::laplacian_smooth_elength of               *)
(* src/ivoldual_reposition.cxx.                                             *)
(***************************************************************************)
EXTENDS Integers, Sequences, FiniteSets, TLC

\* One table object of class ISODUAL_CUBE_TABLE_AMBIG.
VARIABLES
  dimension,                      \* ISODUAL_TABLE::dimension
  num_poly_vertices,              \* ISODUAL_TABLE::num_poly_vertices
  num_poly_edges,                 \* ISODUAL_TABLE::num_poly_edges
  entry,                          \* ISODUAL_TABLE::entry (NULL or the array)
  num_table_entries,              \* ISODUAL_TABLE::num_table_entries
  is_table_allocated,             \* ISODUAL_TABLE::is_table_allocated
  flag_separate_neg,              \* ISODUAL_CUBE_TABLE::flag_separate_neg
  flag_always_separate_opposite,  \* ISODUAL_CUBE_TABLE::flag_always_separate_opposite
  ambig_info,                     \* is_ambiguous[], ambiguous_facet[], num_ambiguous_facets[]
  num_active_facets,              \* ISODUAL_CUBE_TABLE_AMBIG::num_active_facets
  lifecycle,                      \* outcome of the most recent Create / FreeAll
  requested_dimension,            \* dimension the most recent Create was asked for
  acc                             \* the most recent accessor call and its outcome

\* One analyzer object of class FIND_COMPONENT and the last query made of it.
VARIABLES
  analyzer,                       \* dimension, num_cube_vertices, vertex_flag[], component[]
  analyzer_call                   \* arguments and return value of ComputeNumComponents

\* One application of compute_complement.
VARIABLES
  complement_call                 \* arguments and the values returned

\* One query of an ISODUAL_CUBE_FACE_INFO object.
VARIABLES
  facet_call                      \* arguments and the values returned

\* One run of IVOLDUAL::laplacian_smooth_elength.
VARIABLES
  vertex_adjacency_list,          \* per vertex, the list of its adjacent vertices
  ivolv_list,                     \* per vertex, OnLowerIsosurface / OnUpperIsosurface of its entry
  vertex_coord,                   \* the coordinate array, d numbers per vertex
  laplacian_smooth_limit,         \* argument laplacian_smooth_limit
  iteration,                      \* argument iteration
  smooth_it,                      \* loop variable it of the pass loop
  smooth_cur,                     \* loop variable cur of the vertex loop
  smooth_step                     \* the most recent step of the vertex loop

\* ------------------------------------------------------------------ bounds
\* Largest dimension a caller asks a table for.
MaxDim == 4
\* Largest table size the complement function is applied to.
MaxTableSize == 17
MaxIteration == 1

\* Maximum number of vertices allowed for cube (ISODUAL_TABLE::max_num_vertices).
max_num_vertices == 8

\* ------------------------------------------------------------ integer types
\* TABLE_INDEX is int; TLC's integers are 32-bit too and TLC reports an
\* overflow as an error, so no run of the model wraps a TABLE_INDEX.

\* ISODUAL_VERTEX_INDEX is unsigned char.
ToIsodualVertexIndex(x) == x % 256

Pow2(n) == 2 ^ n

\* (TABLE_INDEX(1) << iv)
ShiftLeft1(iv) == Pow2(iv)

\* a & b on non-negative integers, bit by bit.
RECURSIVE BitAnd(_, _)
BitAnd(a, b) ==
  IF a = 0 \/ b = 0 THEN 0
  ELSE (a % 2) * (b % 2) + 2 * BitAnd(a \div 2, b \div 2)

\* ------------------------------------------------ compute_complement (code)
compute_complement_off_by_one(ival, num_entries) ==
  num_entries - ival

compute_complement(ival, num_entries) ==
  num_entries - 1 - ival

\* ------------------------------------------------- polytope geometry service
\* Hypercube of dimension d: vertex iv has coordinate bit k of iv along axis k.
NumCubeVertices(d) == Pow2(d)
NumCubeFacetVertices(d) == Pow2(d - 1)
NumCubeEdges(d) == d * Pow2(d - 1)
NumCubeFacets(d) == 2 * d

Coord(iv, k) == (iv \div Pow2(k)) % 2

\* j'th vertex of the facet orthogonal to axis k through the origin:
\* the bits of j with a 0 inserted at position k.
LowerFacetVertex(k, j) == (j \div Pow2(k)) * Pow2(k + 1) + (j % Pow2(k))

\* Edge ie has direction ie / NumCubeFacetVertices and joins a vertex of the
\* lower facet orthogonal to that direction to its neighbour across.
EdgeDirection(d, ie) == ie \div NumCubeFacetVertices(d)
EdgeEndpoint(d, ie, iend) ==
  LET k == EdgeDirection(d, ie)
      v0 == LowerFacetVertex(k, ie % NumCubeFacetVertices(d))
  IN IF iend = 0 THEN v0 ELSE v0 + Pow2(k)

\* Facet kf < d is orthogonal to axis kf through the origin; facet kf >= d is
\* the parallel facet through the opposite corner.
FacetVertex(d, kf, j) ==
  LET k == kf % d
  IN LowerFacetVertex(k, j) + (IF kf >= d THEN Pow2(k) ELSE 0)

FacetVertices(d, kf) == { FacetVertex(d, kf, j) : j \in 0 .. NumCubeFacetVertices(d) - 1 }

\* Vertex diagonally opposite iv in the full cube.
OppositeVertex(d, iv) == NumCubeVertices(d) - 1 - iv

\* Neighbour of iv along axis k.
Neighbor(iv, k) == IF Coord(iv, k) = 0 THEN iv + Pow2(k) ELSE iv - Pow2(k)

\* ------------------------------------------------------------ convert2bool
\* flag[i] = bit i of ival, by repeated division.
RECURSIVE convert2bool_loop(_, _, _, _)
convert2bool_loop(val, flag, i, num_flags) ==
  IF i >= num_flags THEN flag
  ELSE convert2bool_loop(val \div 2, [flag EXCEPT ![i] = (val % 2 = 1)], i + 1, num_flags)

convert2bool(ival, num_flags) ==
  convert2bool_loop(ival, [i \in 0 .. num_flags - 1 |-> FALSE], 0, num_flags)

\* ------------------------------------------------------------ FIND_COMPONENT
\* FIND_COMPONENT(dimension): flags false, components 0.
NewFindComponent(d) ==
  [ dimension |-> d,
    num_cube_vertices |-> NumCubeVertices(d),
    vertex_flag |-> [i \in 0 .. NumCubeVertices(d) - 1 |-> FALSE],
    component |-> [i \in 0 .. NumCubeVertices(d) - 1 |-> 0] ]

SetVertexFlags(fc, ival) ==
  [fc EXCEPT !.vertex_flag = convert2bool(ival, fc.num_cube_vertices)]

NegateVertexFlags(fc) ==
  [fc EXCEPT !.vertex_flag = [i \in DOMAIN fc.vertex_flag |-> ~fc.vertex_flag[i]]]

ClearAll(fc) ==
  [fc EXCEPT !.component = [i \in DOMAIN fc.component |-> 0]]

\* One pass over the axes at vertex j: every flagged, unvisited neighbour
\* (inside the facet kf when kf >= 0) gets icomp and is pushed on vlist.
RECURSIVE SearchNeighbors(_, _, _, _, _, _)
SearchNeighbors(fc, vlist, j, k, icomp, kf) ==
  IF k >= fc.dimension THEN [fc |-> fc, vlist |-> vlist]
  ELSE
    LET j2 == Neighbor(j, k)
        inFacet == kf < 0 \/ k # kf % fc.dimension
    IN IF inFacet /\ fc.vertex_flag[j2] /\ fc.component[j2] = 0
       THEN SearchNeighbors([fc EXCEPT !.component[j2] = icomp],
                            Append(vlist, j2), j, k + 1, icomp, kf)
       ELSE SearchNeighbors(fc, vlist, j, k + 1, icomp, kf)

RECURSIVE SearchLoop(_, _, _, _)
SearchLoop(fc, vlist, icomp, kf) ==
  IF vlist = <<>> THEN fc
  ELSE
    LET j == vlist[Len(vlist)]
        r == SearchNeighbors(fc, SubSeq(vlist, 1, Len(vlist) - 1), j, 0, icomp, kf)
    IN SearchLoop(r.fc, r.vlist, icomp, kf)

\* Search starting at vertex i.  @pre icomp is not zero.
Search(fc, i, icomp) ==
  SearchLoop([fc EXCEPT !.component[i] = icomp], <<i>>, icomp, -1)

\* Search facet kf starting at vertex i.  @pre facet kf contains i, icomp # 0.
SearchFacet(fc, kf, i, icomp) ==
  SearchLoop([fc EXCEPT !.component[i] = icomp], <<i>>, icomp, kf)

\* The loop of ComputeNumComponents over the vertices i, i+1, ...
RECURSIVE CountLoop(_, _, _)
CountLoop(fc, i, num) ==
  IF i >= fc.num_cube_vertices THEN [fc |-> fc, num |-> num]
  ELSE IF fc.component[i] = 0 /\ fc.vertex_flag[i]
       THEN CountLoop(Search(fc, i, num + 1), i + 1, num + 1)
       ELSE CountLoop(fc, i + 1, num)

\* Faulty variant: the components of the previous query are not cleared.
SetFlagsFor_no_clear(fc, ientry, flag_positive) ==
  LET f1 == SetVertexFlags(fc, ientry)
  IN IF flag_positive THEN f1 ELSE NegateVertexFlags(f1)

SetFlagsFor(fc, ientry, flag_positive) ==
  LET f1 == SetVertexFlags(fc, ientry)
  IN ClearAll(IF flag_positive THEN f1 ELSE NegateVertexFlags(f1))

ComputeNumComponents(fc, ientry, flag_positive) ==
  CountLoop(SetFlagsFor(fc, ientry, flag_positive), 0, 0)

\* The same loop over the vertices of facet kf, by SearchFacet.
RECURSIVE CountLoopInFacet(_, _, _, _)
CountLoopInFacet(fc, kf, j, num) ==
  IF j >= NumCubeFacetVertices(fc.dimension) THEN [fc |-> fc, num |-> num]
  ELSE
    LET i == FacetVertex(fc.dimension, kf, j)
    IN IF fc.component[i] = 0 /\ fc.vertex_flag[i]
       THEN CountLoopInFacet(SearchFacet(fc, kf, i, num + 1), kf, j + 1, num + 1)
       ELSE CountLoopInFacet(fc, kf, j + 1, num)

ComputeNumComponentsInFacet(fc, ientry, kf, flag_positive) ==
  CountLoopInFacet(SetFlagsFor(fc, ientry, flag_positive), kf, 0, 0)

\* ------------------------------------------------ ISODUAL_CUBE_FACE_INFO (code)
\* ComputeNumCubeFacetBits: the loop over the facet vertices j, j+1, ...
RECURSIVE ComputeNumCubeFacetBitsLoop(_, _, _, _, _, _)
ComputeNumCubeFacetBitsLoop(d, ientry, ifacet, j, num_zeros, num_ones) ==
  IF j >= NumCubeFacetVertices(d)
  THEN [num_zeros |-> num_zeros, num_ones |-> num_ones]
  ELSE
    LET jv == FacetVertex(d, ifacet, j)
        mask == ShiftLeft1(jv)
    IN IF BitAnd(mask, ientry) = 0
       THEN ComputeNumCubeFacetBitsLoop(d, ientry, ifacet, j + 1, num_zeros + 1, num_ones)
       ELSE ComputeNumCubeFacetBitsLoop(d, ientry, ifacet, j + 1, num_zeros, num_ones + 1)

ComputeNumCubeFacetBits(d, ientry, ifacet) ==
  ComputeNumCubeFacetBitsLoop(d, ientry, ifacet, 0, 0, 0)

IsCubeFacetActive_either(d, ientry, ifacet) ==
  LET n == ComputeNumCubeFacetBits(d, ientry, ifacet)
  IN n.num_zeros > 0 \/ n.num_ones > 0

IsCubeFacetActive(d, ientry, ifacet) ==
  LET n == ComputeNumCubeFacetBits(d, ientry, ifacet)
  IN n.num_zeros > 0 /\ n.num_ones > 0

RECURSIVE ComputeNumActiveCubeFacetsLoop(_, _, _, _)
ComputeNumActiveCubeFacetsLoop(d, ientry, ifacet, num_active) ==
  IF ifacet >= NumCubeFacets(d) THEN num_active
  ELSE ComputeNumActiveCubeFacetsLoop(d, ientry, ifacet + 1,
         IF IsCubeFacetActive(d, ientry, ifacet)
         THEN num_active + 1 ELSE num_active)

ComputeNumActiveCubeFacets(d, ientry) ==
  ComputeNumActiveCubeFacetsLoop(d, ientry, 0, 0)

\* ------------------------------------------------------- ambiguity routines
is_cube_facet_ambiguous(ientry, kf, fc) ==
  ComputeNumComponentsInFacet(fc, ientry, kf, TRUE).num > 1

\* compute_ambiguous_cube_facets: the loop over the facets kf, kf+1, ...
RECURSIVE compute_ambiguous_cube_facets_loop(_, _, _, _, _, _)
compute_ambiguous_cube_facets_loop(ientry, num_facets, kf, facet_set, num_ambiguous, fc) ==
  IF kf >= num_facets
  THEN [facet_set |-> facet_set, num_ambiguous_facets |-> num_ambiguous]
  ELSE IF is_cube_facet_ambiguous(ientry, kf, fc)
       THEN compute_ambiguous_cube_facets_loop(ientry, num_facets, kf + 1,
              facet_set + ShiftLeft1(kf), ToIsodualVertexIndex(num_ambiguous + 1), fc)
       ELSE compute_ambiguous_cube_facets_loop(ientry, num_facets, kf + 1,
              facet_set, num_ambiguous, fc)

compute_ambiguous_cube_facets(ientry, num_facets, fc) ==
  compute_ambiguous_cube_facets_loop(ientry, num_facets, 0, 0, 0, fc)

is_cube_ambiguous(ientry, fc) ==
  \/ compute_ambiguous_cube_facets(ientry, NumCubeFacets(fc.dimension), fc).num_ambiguous_facets > 0
  \/ ComputeNumComponents(fc, ientry, TRUE).num > 1
  \/ ComputeNumComponents(fc, ientry, FALSE).num > 1

\* ------------------------------------------------------------ table builder
\* alwaysSeparateOpposite: a vertex that shares its component with the
\* diagonally opposite vertex of the full cube is moved to a component of its own.
SeparateOppositeLoop_no_split(fc, iv, num) == [fc |-> fc, num |-> num]

RECURSIVE SeparateOppositeLoop(_, _, _)
SeparateOppositeLoop(fc, iv, num) ==
  IF 2 * iv >= fc.num_cube_vertices THEN [fc |-> fc, num |-> num]
  ELSE
    LET opp == OppositeVertex(fc.dimension, iv)
    IN IF /\ fc.vertex_flag[iv] /\ fc.vertex_flag[opp]
          /\ fc.component[iv] = fc.component[opp]
       THEN SeparateOppositeLoop([fc EXCEPT !.component[opp] = num + 1], iv + 1, num + 1)
       ELSE SeparateOppositeLoop(fc, iv + 1, num)

\* Components of one sign class of ientry, as the builder turns them into patches.
SeparateComponents(fc, ientry, flag_positive, separate_opposite) ==
  LET r == ComputeNumComponents(fc, ientry, flag_positive)
  IN IF separate_opposite THEN SeparateOppositeLoop(r.fc, 0, r.num) ELSE r

\* Number of patches of ientry: the positive components and, with
\* separate_neg, the negative components as well.
NumPatches_always_neg(num_pos, num_neg, separate_neg) == num_pos + num_neg

NumPatches(num_pos, num_neg, separate_neg) ==
  num_pos + (IF separate_neg THEN num_neg ELSE 0)

\* The record CreateTableEntries stores for ientry.
CreateTableEntry(d, ientry, separate_neg, separate_opposite) ==
  LET find_component == NewFindComponent(d)
      pos == SeparateComponents(find_component, ientry, TRUE, separate_opposite)
      num_neg == SeparateComponents(pos.fc, ientry, FALSE, separate_opposite).num
      flag == pos.fc.vertex_flag
      comp == pos.fc.component
  IN [ num_vertices |-> NumPatches(pos.num, num_neg, separate_neg),
       is_bipolar |->
         [ie \in 0 .. NumCubeEdges(d) - 1 |->
            flag[EdgeEndpoint(d, ie, 0)] # flag[EdgeEndpoint(d, ie, 1)]],
       incident_isovertex |->
         [ie \in 0 .. NumCubeEdges(d) - 1 |->
            IF flag[EdgeEndpoint(d, ie, 0)] # flag[EdgeEndpoint(d, ie, 1)]
            THEN ToIsodualVertexIndex(
                   (IF flag[EdgeEndpoint(d, ie, 0)]
                    THEN comp[EdgeEndpoint(d, ie, 0)]
                    ELSE comp[EdgeEndpoint(d, ie, 1)]) - 1)
            ELSE 0] ]

CreateTableEntries(d, n, separate_neg, separate_opposite) ==
  [ientry \in 0 .. n - 1 |->
     CreateTableEntry(d, ientry, separate_neg, separate_opposite)]

\* ComputeAmbiguityInformation: is_ambiguous[], ambiguous_facet[], num_ambiguous_facets[].
ComputeAmbiguityInformation(d, n) ==
  [ientry \in 0 .. n - 1 |->
     LET fc == NewFindComponent(d)
         af == compute_ambiguous_cube_facets(ientry, NumCubeFacets(d), fc)
     IN [ is_ambiguous |-> is_cube_ambiguous(ientry, fc),
          ambiguous_facet |-> af.facet_set,
          num_ambiguous_facets |-> af.num_ambiguous_facets ]]

\* ComputeNumActiveFacets: num_active_facets[].
ComputeNumActiveFacets(d, n) ==
  [ientry \in 0 .. n - 1 |-> ToIsodualVertexIndex(ComputeNumActiveCubeFacets(d, ientry))]

\* ------------------------------------------------------------- ISODUAL_TABLE
\* The null pointer: no array.
NULL == << >>

\* calculate_num_entries: num_colors multiplied num_vert times.
RECURSIVE calculate_num_entries(_, _)
calculate_num_entries(num_vert, num_colors) ==
  IF num_vert = 0 THEN 1 ELSE num_colors * calculate_num_entries(num_vert - 1, num_colors)

\* The check SetDimension makes of the cube's vertex count.
DimensionSupported(d) == NumCubeVertices(d) <= max_num_vertices

SupportedDimensions == { d \in 1 .. MaxDim : DimensionSupported(d) }

\* Number of records SetDimension allocates for the d-cube.
NumTableEntriesOfDimension(d) == calculate_num_entries(d, 2)

NumTableEntriesFor(d) == calculate_num_entries(NumCubeVertices(d), 2)

\* What Create computes for each supported dimension and each pair of flags
\* (one evaluation serves every Create step with the same arguments).
BuiltEntries ==
  [d \in SupportedDimensions |-> [sn \in BOOLEAN |-> [so \in BOOLEAN |->
     CreateTableEntries(d, NumTableEntriesFor(d), sn, so)]]]

BuiltAmbigInfo ==
  [d \in SupportedDimensions |-> ComputeAmbiguityInformation(d, NumTableEntriesFor(d))]

BuiltNumActiveFacets ==
  [d \in SupportedDimensions |-> ComputeNumActiveFacets(d, NumTableEntriesFor(d))]

\* Accessors of the table object.
NumTableEntries == num_table_entries
Complement(it) == compute_complement(it, num_table_entries)
NumIsoVertices(it) == entry[it].num_vertices

\* Faulty variants of the accessors, used to test the properties below.
IncidentIsoVertex_one_based(it, kf) == entry[it].incident_isovertex[kf] + 1
IncidentIsoVertex_first_face(it, kf) == entry[it].incident_isovertex[0]
IsBipolar_copy_paste(it, ke) == entry[it].incident_isovertex[ke] # 0
IsAmbiguous_facets_only(it) == ambig_info[it].num_ambiguous_facets > 0
IsAmbiguous_off_by_one(it) == ambig_info[(it + 1) % num_table_entries].is_ambiguous
IsFacetAmbiguous_no_shift(it, jf) == BitAnd(ambig_info[it].ambiguous_facet, jf) # 0

IncidentIsoVertex(it, kf) == entry[it].incident_isovertex[kf]
IsBipolar(it, ke) == entry[it].is_bipolar[ke]
IsPositive(it, iv) == BitAnd(it, ShiftLeft1(iv)) # 0
IsTableAllocated == is_table_allocated
IsAmbiguous(it) == ambig_info[it].is_ambiguous
IsFacetAmbiguous(it, jf) == BitAnd(ambig_info[it].ambiguous_facet, ShiftLeft1(jf)) # 0
AmbiguousFacetBits(it) == ambig_info[it].ambiguous_facet
NumAmbiguousFacets(it) == ambig_info[it].num_ambiguous_facets
NumActiveFacets(it) == num_active_facets[it]

tableVars ==
  << dimension, num_poly_vertices, num_poly_edges, entry, num_table_entries,
     is_table_allocated, flag_separate_neg, flag_always_separate_opposite,
     ambig_info, num_active_facets >>
historyVars == << lifecycle, requested_dimension >>
smoothVars ==
  << vertex_adjacency_list, ivolv_list, vertex_coord, laplacian_smooth_limit,
     iteration, smooth_it, smooth_cur, smooth_step >>
probeVars == << analyzer, analyzer_call, complement_call, facet_call, smoothVars >>
vars == << tableVars, historyVars, acc, probeVars >>

NoCall == [op |-> "none"]

\* No run of laplacian_smooth_elength.
NoSmoothing ==
  /\ vertex_adjacency_list = << >>
  /\ ivolv_list = << >>
  /\ vertex_coord = << >>
  /\ laplacian_smooth_limit = 0
  /\ iteration = 0
  /\ smooth_it = 0
  /\ smooth_cur = 0
  /\ smooth_step = NoCall
NoAnalyzer ==
  [dimension |-> 0, num_cube_vertices |-> 0, vertex_flag |-> NULL, component |-> NULL]

\* The table object after its default constructor.
TableInit ==
  /\ dimension = 0
  /\ num_poly_vertices = 0
  /\ num_poly_edges = 0
  /\ entry = NULL
  /\ num_table_entries = 0
  /\ is_table_allocated = FALSE
  /\ flag_separate_neg = FALSE
  /\ flag_always_separate_opposite = FALSE
  /\ ambig_info = NULL
  /\ num_active_facets = NULL
  /\ lifecycle = "constructed"
  /\ requested_dimension = 0
  /\ acc = NoCall

Init ==
  /\ TableInit
  /\ analyzer = NoAnalyzer
  /\ analyzer_call = NoCall
  /\ complement_call = NoCall
  /\ facet_call = NoCall
  /\ NoSmoothing

\* ISODUAL_TABLE::FreeAll / ISODUAL_CUBE_TABLE_AMBIG::FreeAll: the records and
\* the ambiguity arrays are freed.
Freed ==
  /\ entry' = NULL
  /\ num_table_entries' = 0
  /\ is_table_allocated' = FALSE
  /\ ambig_info' = NULL
  /\ num_active_facets' = NULL

FreeAll ==
  /\ Freed
  /\ lifecycle' = "released"
  /\ UNCHANGED << dimension, num_poly_vertices, num_poly_edges, flag_separate_neg,
                  flag_always_separate_opposite, requested_dimension, acc, probeVars >>

\* ISODUAL_CUBE_TABLE_AMBIG::Create(dimension, flag_separate_neg, flag_separate_opposite):
\* SetDimension, CreateTableEntries, ComputeAmbiguityInformation, ComputeNumActiveFacets.
Create(d, separate_neg, separate_opposite) ==
  /\ requested_dimension' = d
  /\ IF DimensionSupported(d)
     THEN /\ dimension' = d
          /\ num_poly_vertices' = NumCubeVertices(d)
          /\ num_poly_edges' = NumCubeEdges(d)
          /\ num_table_entries' = NumTableEntriesFor(d)
          /\ entry' = BuiltEntries[d][separate_neg][separate_opposite]
          /\ is_table_allocated' = TRUE
          /\ flag_separate_neg' = separate_neg
          /\ flag_always_separate_opposite' = separate_opposite
          /\ ambig_info' = BuiltAmbigInfo[d]
          /\ num_active_facets' = BuiltNumActiveFacets[d]
          /\ lifecycle' = "built"
     ELSE /\ Freed
          /\ lifecycle' = "DimensionError"
          /\ UNCHANGED << dimension, num_poly_vertices, num_poly_edges,
                          flag_separate_neg, flag_always_separate_opposite >>
  /\ UNCHANGED << acc, probeVars >>

\* ------------------------------------------------------------ accessor calls
AccessorOps == { "NumIsoVertices", "IncidentIsoVertex", "IsBipolar", "IsPositive", "Complement" }

\* Largest value a read through the null entry pointer is taken to return.
MaxGarbage == 1

BoolToInt(b) == IF b THEN 1 ELSE 0

\* Table indices an accessor is called with: the first and the last.
ProbeIndices == { 0 } \cup { it \in { num_table_entries - 1 } : it > 0 }

\* The outcomes of op(it, 0) in the current state, as [outcome, value].
\* NumIsoVertices, IncidentIsoVertex and IsBipolar read entry[it] unchecked:
\* through the null pointer the read is undefined (a crash, or any value).
\* Complement only computes on num_table_entries.
AccessOutcomes(op, it) ==
  CASE op = "Complement" ->
         { [outcome |-> "returned", value |-> Complement(it)] }
    [] op = "IsPositive" ->
         IF is_table_allocated
         THEN { [outcome |-> "returned", value |-> BoolToInt(IsPositive(it, 0))] }
         ELSE { [outcome |-> "NotBuiltError", value |-> 0] }
    [] OTHER ->
         IF entry = NULL
         THEN { [outcome |-> "crashed", value |-> 0] }
              \cup { [outcome |-> "returned", value |-> v] : v \in 0 .. MaxGarbage }
         ELSE { [outcome |-> "returned",
                 value |-> CASE op = "NumIsoVertices" -> NumIsoVertices(it)
                             [] op = "IncidentIsoVertex" -> IncidentIsoVertex(it, 0)
                             [] OTHER -> BoolToInt(IsBipolar(it, 0))] }

Access(op, it) ==
  /\ \E r \in AccessOutcomes(op, it) :
       acc' = [op |-> op, it |-> it, outcome |-> r.outcome, value |-> r.value,
               after |-> lifecycle]
  /\ UNCHANGED << tableVars, historyVars, probeVars >>

Next ==
  \/ \E d \in 1 .. MaxDim, sn \in BOOLEAN, so \in BOOLEAN : Create(d, sn, so)
  \/ FreeAll
  \/ \E op \in AccessorOps, it \in ProbeIndices : Access(op, it)

Spec == Init /\ [][Next]_vars

\* ------------------------------------------------- the analyzer on its own
InitFind ==
  /\ TableInit
  /\ analyzer \in { NewFindComponent(d) : d \in SupportedDimensions }
  /\ analyzer_call = NoCall
  /\ complement_call = NoCall
  /\ facet_call = NoCall
  /\ NoSmoothing

\* One call of ComputeNumComponents on the analyzer as the last call left it.
CallComputeNumComponents(ientry, flag_positive) ==
  /\ LET r == ComputeNumComponents(analyzer, ientry, flag_positive)
     IN /\ analyzer' = r.fc
        /\ analyzer_call' = [op |-> "ComputeNumComponents", ientry |-> ientry,
                             flag_positive |-> flag_positive, num |-> r.num]
  /\ UNCHANGED << tableVars, historyVars, acc, complement_call, facet_call, smoothVars >>

NextFind ==
  \E ientry \in 0 .. NumTableEntriesFor(analyzer.dimension) - 1, fp \in BOOLEAN :
    CallComputeNumComponents(ientry, fp)

SpecFind == InitFind /\ [][NextFind]_vars

\* ------------------------------------------- compute_complement on its own
InitComplement ==
  /\ TableInit
  /\ analyzer = NoAnalyzer
  /\ analyzer_call = NoCall
  /\ complement_call \in
       { [op |-> "ready", n |-> n, it |-> it] : n \in 1 .. MaxTableSize, it \in 0 .. MaxTableSize - 1 }
  /\ complement_call.it < complement_call.n
  /\ facet_call = NoCall
  /\ NoSmoothing

\* Complement applied to it, and again to the result.
ApplyComplement ==
  /\ complement_call.op = "ready"
  /\ LET c1 == compute_complement(complement_call.it, complement_call.n)
     IN complement_call' =
          [op |-> "done", n |-> complement_call.n, it |-> complement_call.it,
           c1 |-> c1, c2 |-> compute_complement(c1, complement_call.n)]
  /\ UNCHANGED << tableVars, historyVars, acc, analyzer, analyzer_call, facet_call, smoothVars >>

NextComplement == ApplyComplement

SpecComplement == InitComplement /\ [][NextComplement]_vars

\* ------------------------------------ ISODUAL_CUBE_FACE_INFO on its own
InitFacets ==
  /\ TableInit
  /\ analyzer = NoAnalyzer
  /\ analyzer_call = NoCall
  /\ complement_call = NoCall
  /\ facet_call \in
       UNION { { [op |-> "ready", d |-> d, ientry |-> ientry] :
                   ientry \in 0 .. NumTableEntriesFor(d) - 1 } :
               d \in SupportedDimensions }
  /\ NoSmoothing

\* ComputeNumActiveCubeFacets(ientry), and ComputeNumCubeFacetBits(ientry, ifacet)
\* for every facet, on the cube of dimension d.
CallComputeNumActiveCubeFacets ==
  /\ facet_call.op = "ready"
  /\ LET d == facet_call.d
         ientry == facet_call.ientry
     IN facet_call' =
          [op |-> "ComputeNumActiveCubeFacets", d |-> d, ientry |-> ientry,
           num_active_facets |-> ComputeNumActiveCubeFacets(d, ientry),
           facet_bits |-> [ifacet \in 0 .. NumCubeFacets(d) - 1 |->
                             ComputeNumCubeFacetBits(d, ientry, ifacet)]]
  /\ UNCHANGED << tableVars, historyVars, acc, analyzer, analyzer_call, complement_call, smoothVars >>

NextFacets == CallComputeNumActiveCubeFacets

SpecFacets == InitFacets /\ [][NextFacets]_vars

\* ------------------------------------------ IVOLDUAL::laplacian_smooth_elength
\* Coordinates are exact fractions num / den with den > 0, in lowest terms.
Abs(a) == IF a < 0 THEN -a ELSE a

RECURSIVE Gcd(_, _)
Gcd(a, b) == IF b = 0 THEN a ELSE Gcd(b, a % b)

Frac(num, den) ==
  LET g == Gcd(Abs(num), den)
  IN [num |-> num \div g, den |-> den \div g]

FracAdd(a, b) ==
  LET m == (a.den \div Gcd(a.den, b.den)) * b.den
  IN Frac(a.num * (m \div a.den) + b.num * (m \div b.den), m)

FracSub(a, b) == FracAdd(a, [num |-> -b.num, den |-> b.den])
FracMul(a, b) == Frac(a.num * b.num, a.den * b.den)
FracLess(a, b) == a.num * b.den < b.num * a.den

\* const int d = 3
SmoothDim == 3

Axes == 0 .. SmoothDim - 1

\* The d coordinates at vcoord + v*d.
CoordAt(vcoord, v) == [i \in Axes |-> vcoord[v * SmoothDim + i]]

\* IJK::set_coord(d, c, coord)
set_coord(c) == [i \in Axes |-> Frac(c, 1)]

\* IJK::add_coord(d, coord0, coord1, coord2)
add_coord(coord0, coord1) == [i \in Axes |-> FracAdd(coord0[i], coord1[i])]

\* IJK::compute_distance(d, coord0, coord1, dist), as the square of dist.
RECURSIVE SumSquares(_, _, _)
SumSquares(coord0, coord1, i) ==
  IF i >= SmoothDim THEN Frac(0, 1)
  ELSE LET diff == FracSub(coord0[i], coord1[i])
       IN FracAdd(FracMul(diff, diff), SumSquares(coord0, coord1, i + 1))

compute_distance_squared(coord0, coord1) == SumSquares(coord0, coord1, 0)

\* dist < laplacian_smooth_limit, for dist >= 0 given by its square.
DistLessThan(dist_squared, limit) ==
  limit > 0 /\ FracLess(dist_squared, Frac(limit * limit, 1))

\* IJK::divide_coord(d, c, coord0, coord1), c # 0.
divide_coord(c, coord0) == [i \in Axes |-> Frac(coord0[i].num, coord0[i].den * c)]

\* IJK::copy_coord(d, coord0, cur_coord) with cur_coord = vcoord + v*d.
copy_coord(coord0, vcoord, v) ==
  [j \in DOMAIN vcoord |->
     IF j \in v * SmoothDim .. v * SmoothDim + SmoothDim - 1
     THEN coord0[j - v * SmoothDim] ELSE vcoord[j]]

NumVertices == Cardinality(DOMAIN vertex_adjacency_list)
NumAdjacent(v) == Len(vertex_adjacency_list[v])
AdjacentVertex(v, k) == vertex_adjacency_list[v][k + 1]
OnLowerIsosurface(v) == ivolv_list[v].on_lower
OnUpperIsosurface(v) == ivolv_list[v].on_upper

\* bool skipSurfaceVert = (it % 2 == 0)
skipSurfaceVert_odd(pass) == pass % 2 = 1

skipSurfaceVert(pass) == pass % 2 = 0

\* The test that skips an adjacent vertex not on the surface of the current one.
NotOnSameSurface(curOnLower, curOnUpper, adjOnLower, adjOnUpper) ==
  (curOnLower /\ ~adjOnLower) \/ (curOnUpper /\ ~adjOnUpper)

\* The loop over the adjacent vertices k, k+1, ... of vertex c.
RECURSIVE AdjacentLoop(_, _, _, _, _)
AdjacentLoop(c, k, neigh_sum, flag_moving, adj_count) ==
  IF k >= NumAdjacent(c)
  THEN [neigh_sum |-> neigh_sum, flag_moving |-> flag_moving, adj_count |-> adj_count]
  ELSE
    LET a == AdjacentVertex(c, k)
        neigh_coord == CoordAt(vertex_coord, a)
    IN IF NotOnSameSurface(OnLowerIsosurface(c), OnUpperIsosurface(c),
                           OnLowerIsosurface(a), OnUpperIsosurface(a))
       THEN AdjacentLoop(c, k + 1, neigh_sum, flag_moving, adj_count)
       ELSE AdjacentLoop(c, k + 1, add_coord(neigh_sum, neigh_coord),
              flag_moving \/
                DistLessThan(compute_distance_squared(CoordAt(vertex_coord, c), neigh_coord),
                             laplacian_smooth_limit),
              adj_count + 1)

\* The loop variables after the body for vertex smooth_cur: the next vertex,
\* or vertex 0 of the next pass.
AdvanceLoops ==
  IF smooth_cur + 1 < NumVertices
  THEN /\ smooth_cur' = smooth_cur + 1
       /\ smooth_it' = smooth_it
  ELSE /\ smooth_cur' = 0
       /\ smooth_it' = smooth_it + 1

\* One execution of the body of the vertex loop, for vertex smooth_cur in
\* pass smooth_it.
VisitVertex ==
  /\ smooth_it < 2 * iteration + 1
  /\ smooth_cur < NumVertices
  /\ LET isOnSurface == OnLowerIsosurface(smooth_cur) \/ OnUpperIsosurface(smooth_cur)
         r == AdjacentLoop(smooth_cur, 0, set_coord(0), FALSE, 0)
         visited == isOnSurface # skipSurfaceVert(smooth_it)
         written == visited /\ r.flag_moving
     IN /\ vertex_coord' =
             IF written
             THEN copy_coord(divide_coord(r.adj_count, r.neigh_sum), vertex_coord, smooth_cur)
             ELSE vertex_coord
        /\ smooth_step' =
             [op |-> "visit", pass |-> smooth_it, vertex |-> smooth_cur,
              written |-> written,
              adj_count |-> IF visited THEN r.adj_count ELSE 0,
              before |-> vertex_coord,
              count |-> IF smooth_step.op = "visit" THEN smooth_step.count + 1 ELSE 1]
  /\ AdvanceLoops
  /\ UNCHANGED << vertex_adjacency_list, ivolv_list, laplacian_smooth_limit, iteration >>
  /\ UNCHANGED << tableVars, historyVars, acc, analyzer, analyzer_call,
                  complement_call, facet_call >>

\* Arguments of a run: three vertices, every symmetric adjacency among them,
\* every placement on the two isosurfaces.
SmoothVertices == 0 .. 2
VertexPairs == { << 0, 1 >>, << 0, 2 >>, << 1, 2 >> }

RECURSIVE ListOf(_, _)
ListOf(S, v) ==
  IF v > 2 THEN << >>
  ELSE (IF v \in S THEN << v >> ELSE << >>) \o ListOf(S, v + 1)

AdjacencyListOf(E) ==
  [v \in SmoothVertices |->
     ListOf({ u \in SmoothVertices : << u, v >> \in E \/ << v, u >> \in E }, 0)]

InitialCoord ==
  [j \in 0 .. 3 * SmoothDim - 1 |->
     Frac(<< 0, 0, 0,   2, 0, 0,   0, 2, 0 >>[j + 1], 1)]

SmoothLimits == { 0, 2, 3 }

InitSmooth ==
  /\ TableInit
  /\ analyzer = NoAnalyzer
  /\ analyzer_call = NoCall
  /\ complement_call = NoCall
  /\ facet_call = NoCall
  /\ vertex_adjacency_list \in { AdjacencyListOf(E) : E \in SUBSET VertexPairs }
  /\ ivolv_list \in [SmoothVertices -> [on_lower : BOOLEAN, on_upper : BOOLEAN]]
  /\ vertex_coord = InitialCoord
  /\ laplacian_smooth_limit \in SmoothLimits
  /\ iteration \in 0 .. MaxIteration
  /\ smooth_it = 0
  /\ smooth_cur = 0
  /\ smooth_step = NoCall

NextSmooth == VisitVertex

SpecSmooth == InitSmooth /\ [][NextSmooth]_vars

\* =================================================================== claims
Indices == 0 .. num_table_entries - 1
PolyEdges == 0 .. num_poly_edges - 1
BipolarEdges(it) == { ke \in PolyEdges : IsBipolar(it, ke) }

\* Bit i of n.
Bit(n, i) == (n \div (2 ^ i)) % 2

\* C1: in a built table an edge is bipolar exactly when IsPositive differs
\* at its two endpoints.
Inv_C1_BipolarIffSignsDiffer ==
  is_table_allocated =>
    \A it \in 0 .. (2 ^ num_poly_vertices) - 1 : \A ke \in PolyEdges :
      IsBipolar(it, ke) =
        (IsPositive(it, EdgeEndpoint(dimension, ke, 0))
           # IsPositive(it, EdgeEndpoint(dimension, ke, 1)))

Witness_C1 ==
  /\ is_table_allocated /\ dimension = 3
  /\ IsBipolar(13, 0) /\ ~IsBipolar(13, 1)
  /\ IsPositive(13, 0) /\ ~IsPositive(13, 1) /\ IsPositive(13, 2)

\* C2: the patch stored for a bipolar edge is one of the patches of the entry,
\* whatever the two policy flags.
Inv_C2_IncidentPatchInRange ==
  is_table_allocated =>
    \A it \in Indices : \A ke \in BipolarEdges(it) :
      0 <= IncidentIsoVertex(it, ke) /\ IncidentIsoVertex(it, ke) < NumIsoVertices(it)

Witness_C2 ==
  /\ is_table_allocated /\ dimension = 3
  /\ flag_separate_neg /\ flag_always_separate_opposite
  /\ \E it \in Indices : \E ke \in BipolarEdges(it) : IncidentIsoVertex(it, ke) >= 2

\* C3: the all-outside index 0 and the all-inside index size-1 have no patch
\* and no bipolar edge.
Claim_C3_ExtremeEntriesEmpty ==
  is_table_allocated =>
    \A it \in { 0, num_table_entries - 1 } :
      NumIsoVertices(it) = 0 /\ BipolarEdges(it) = {}

\* C4 as stated: in the 2-cube table, corners 0 and 2 positive is ambiguous, and
\* one positive corner is unambiguous with one patch and two bipolar edges.
OnePositiveCorner == { 2 ^ v : v \in 0 .. 3 }

Inv_C5_ComplementInvolution ==
  complement_call.op = "done" =>
    LET n == complement_call.n
        it == complement_call.it
        c1 == complement_call.c1
    IN /\ c1 = n - 1 - it
       /\ complement_call.c2 = it
       /\ 0 <= c1 /\ c1 < n
       /\ (c1 = it) = (2 * it = n - 1)
       /\ (\E v \in 1 .. MaxTableSize : n = 2 ^ v) => c1 # it

Witness_C5 ==
  /\ complement_call.op = "done"
  /\ complement_call.n = 9 /\ complement_call.it = 4 /\ complement_call.c1 = 4

\* C6: Create either allocates 2^(vertex count) records, or fails with
\* DimensionError exactly when the vertex count exceeds the maximum and then
\* leaves no table.
Inv_C6_BuildAllOrNothing ==
  /\ lifecycle = "built" =>
       /\ 2 ^ requested_dimension <= max_num_vertices
       /\ is_table_allocated
       /\ dimension = requested_dimension
       /\ num_poly_vertices = 2 ^ requested_dimension
       /\ num_table_entries = 2 ^ (2 ^ requested_dimension)
       /\ DOMAIN entry = 0 .. 2 ^ (2 ^ requested_dimension) - 1
  /\ lifecycle = "DimensionError" =>
       /\ 2 ^ requested_dimension > max_num_vertices
       /\ ~is_table_allocated
       /\ entry = NULL
       /\ num_table_entries = 0

Witness_C6 ==
  /\ lifecycle = "DimensionError"
  /\ requested_dimension = 4
  /\ dimension = 3

\* C7: an accessor call returns only when the most recent lifecycle operation
\* was a successful build, and otherwise fails with NotBuiltError.
Claim_C7_AccessorsNeedBuiltTable ==
  acc.op # "none" =>
    IF acc.after = "built"
    THEN acc.outcome = "returned"
    ELSE acc.outcome = "NotBuiltError"

\* countComponents(ientry, usePositive) of a fresh analyzer.
CountComponents(d, ientry, flag_positive) ==
  ComputeNumComponents(NewFindComponent(d), ientry, flag_positive).num

\* C8 as stated: the positive component count equals the number of distinct
\* patches stored on the bipolar edges.
PatchesOnBipolarEdges(it) == { IncidentIsoVertex(it, ke) : ke \in BipolarEdges(it) }

Claim_C8_ComponentsMatchPatchesAsStated ==
  is_table_allocated =>
    \A it \in Indices :
      CountComponents(dimension, it, TRUE) = Cardinality(PatchesOnBipolarEdges(it))

\* C8 amended: so it is for every index but the all-inside one, when opposite
\* vertices are not forced apart.
Inv_C8_ComponentsMatchPatches ==
  (is_table_allocated /\ ~flag_always_separate_opposite) =>
    \A it \in Indices \ { num_table_entries - 1 } :
      CountComponents(dimension, it, TRUE) = Cardinality(PatchesOnBipolarEdges(it))

Witness_C8 ==
  /\ is_table_allocated /\ ~flag_always_separate_opposite /\ dimension = 3
  /\ Cardinality(PatchesOnBipolarEdges(105)) = 4

\* Vertices of the sign class ComputeNumComponents(ientry, flag_positive) searches.
FlaggedVertices(d, ientry, flag_positive) ==
  { v \in 0 .. (2 ^ d) - 1 : (Bit(ientry, v) = 1) = flag_positive }

JoinedByEdge(d, u, v) ==
  \E ie \in 0 .. NumCubeEdges(d) - 1 :
    { EdgeEndpoint(d, ie, 0), EdgeEndpoint(d, ie, 1) } = { u, v }

\* Vertices of F joined to a vertex of S by a path of polytope edges inside F.
AdjacentVerticesOf ==
  [d \in SupportedDimensions |-> [u \in 0 .. NumCubeVertices(d) - 1 |->
     { v \in 0 .. NumCubeVertices(d) - 1 : JoinedByEdge(d, u, v) }]]

RECURSIVE Reachable(_, _, _)
Reachable(d, S, F) ==
  LET S2 == S \cup { v \in F : \E u \in S : v \in AdjacentVerticesOf[d][u] }
  IN IF S2 = S THEN S ELSE Reachable(d, S2, F)

ConnectedSets(d, F) == { Reachable(d, { v }, F) : v \in F }

\* C9: ComputeNumComponents labels exactly the vertices of the sign class, two
\* of them alike exactly when a path of edges inside the class joins them, and
\* returns the number of maximal connected sets.
Inv_C9_ComponentsAreConnectedSets ==
  analyzer_call.op = "ComputeNumComponents" =>
    LET d == analyzer.dimension
        F == FlaggedVertices(d, analyzer_call.ientry, analyzer_call.flag_positive)
    IN /\ \A v \in 0 .. (2 ^ d) - 1 :
            /\ analyzer.vertex_flag[v] = (v \in F)
            /\ (analyzer.component[v] # 0) = (v \in F)
       /\ \A u \in F : \A v \in F :
            (analyzer.component[u] = analyzer.component[v]) = (v \in Reachable(d, { u }, F))
       /\ analyzer_call.num = Cardinality(ConnectedSets(d, F))
       /\ F = {} => analyzer_call.num = 0

Witness_C9 ==
  /\ analyzer_call.op = "ComputeNumComponents"
  /\ analyzer.dimension = 3
  /\ ~analyzer_call.flag_positive
  /\ analyzer_call.num = 3

\* C10: without alwaysSeparateOpposite the patch count is the positive
\* component count, plus the negative one when separateNegative is set.
Inv_C10_PatchCount ==
  (is_table_allocated /\ ~flag_always_separate_opposite) =>
    \A it \in Indices :
      NumIsoVertices(it) =
        IF flag_separate_neg
        THEN CountComponents(dimension, it, TRUE) + CountComponents(dimension, it, FALSE)
        ELSE CountComponents(dimension, it, TRUE)

Witness_C10 ==
  /\ is_table_allocated /\ ~flag_always_separate_opposite /\ flag_separate_neg
  /\ dimension = 3
  /\ NumIsoVertices(105) = 8

\* Polytope edges with an endpoint at vertex v, for every supported dimension.
EdgesAtOf ==
  [d \in SupportedDimensions |-> [v \in 0 .. NumCubeVertices(d) - 1 |->
     { ke \in 0 .. NumCubeEdges(d) - 1 :
         v \in { EdgeEndpoint(d, ke, 0), EdgeEndpoint(d, ke, 1) } }]]

EdgesAt(v) == EdgesAtOf[dimension][v]

\* Pairs <<it, iv>> where iv and its diagonally opposite vertex both belong to
\* the sign class flag_positive of it and a path inside the class joins them,
\* for every supported dimension.
MergedOppositePairsOf ==
  [d \in SupportedDimensions |-> [flag_positive \in BOOLEAN |->
     { p \in (0 .. NumTableEntriesFor(d) - 1) \X (0 .. NumCubeVertices(d) - 1) :
         LET F == FlaggedVertices(d, p[1], flag_positive)
         IN /\ p[2] \in F
            /\ OppositeVertex(d, p[2]) \in Reachable(d, { p[2] }, F) }]]

MergedOppositePairs(flag_positive) == MergedOppositePairsOf[dimension][flag_positive]

\* The bipolar edges at iv and those at its opposite vertex carry different
\* patch ids.
OppositeInDifferentPatches(it, iv) ==
  \A e1 \in EdgesAt(iv) : \A e2 \in EdgesAt(OppositeVertex(dimension, iv)) :
    (IsBipolar(it, e1) /\ IsBipolar(it, e2)) =>
      IncidentIsoVertex(it, e1) # IncidentIsoVertex(it, e2)

PolyFacets == 0 .. NumCubeFacets(dimension) - 1

\* Number of maximal sets of positive vertices of facet jf joined by edges of
\* the facet, for every supported dimension.
NumPositiveSetsInFacetOf ==
  [d \in SupportedDimensions |-> [it \in 0 .. NumTableEntriesFor(d) - 1 |->
     [jf \in 0 .. NumCubeFacets(d) - 1 |->
        Cardinality(ConnectedSets(d,
          FlaggedVertices(d, it, TRUE) \cap FacetVertices(d, jf)))]]]

NumPositiveSetsInFacet(it, jf) == NumPositiveSetsInFacetOf[dimension][it][jf]

\* C12: bit jf of the ambiguous facet set is set exactly when the positive
\* vertices of facet jf form more than one connected set inside the facet, and
\* the ambiguous facet count is the number of set bits.
Inv_C12_AmbiguousFacetBits ==
  is_table_allocated =>
    \A it \in Indices :
      /\ \A jf \in PolyFacets :
           /\ IsFacetAmbiguous(it, jf) <=> NumPositiveSetsInFacet(it, jf) > 1
           /\ IsFacetAmbiguous(it, jf) <=> Bit(AmbiguousFacetBits(it), jf) = 1
      /\ AmbiguousFacetBits(it) < 2 ^ NumCubeFacets(dimension)
      /\ NumAmbiguousFacets(it) =
           Cardinality({ jf \in PolyFacets : Bit(AmbiguousFacetBits(it), jf) = 1 })

\* Cube with vertices 0 and 3 positive: only the facet with third coordinate 0
\* is ambiguous; with vertices 0, 3, 5, 6 positive all six facets are.
Witness_C12 ==
  /\ is_table_allocated /\ dimension = 3
  /\ IsFacetAmbiguous(9, 2) /\ NumAmbiguousFacets(9) = 1 /\ AmbiguousFacetBits(9) = 4
  /\ NumAmbiguousFacets(105) = 6 /\ AmbiguousFacetBits(105) = 63

\* Number of maximal connected sets of each sign class of the whole cube, for
\* every supported dimension.
NumConnectedSetsOf ==
  [d \in SupportedDimensions |-> [flag_positive \in BOOLEAN |->
     [it \in 0 .. NumTableEntriesFor(d) - 1 |->
        Cardinality(ConnectedSets(d, FlaggedVertices(d, it, flag_positive)))]]]

NumConnectedSets(it, flag_positive) == NumConnectedSetsOf[dimension][flag_positive][it]

\* C13: a configuration is ambiguous exactly when one of its facets is
\* ambiguous or its positive or its negative vertices form more than one
\* connected set in the whole cube.
Inv_C13_IsAmbiguous ==
  is_table_allocated =>
    \A it \in Indices :
      IsAmbiguous(it) <=>
        \/ NumAmbiguousFacets(it) > 0
        \/ NumConnectedSets(it, TRUE) > 1
        \/ NumConnectedSets(it, FALSE) > 1

\* Cube with the opposite corners 0 and 7 positive: no facet is ambiguous, the
\* positive vertices form two sets; with 0 and 3 positive a facet is ambiguous;
\* with vertex 0 alone nothing is.
Witness_C13 ==
  /\ is_table_allocated /\ dimension = 3
  /\ IsAmbiguous(129) /\ NumAmbiguousFacets(129) = 0 /\ NumConnectedSets(129, TRUE) = 2
  /\ IsAmbiguous(9) /\ NumAmbiguousFacets(9) = 1
  /\ ~IsAmbiguous(1) /\ NumAmbiguousFacets(1) = 0

\* Vertices of facet ifacet of the d-cube whose bit in ientry is b.
FacetVerticesWithBit(d, ientry, ifacet, b) ==
  { v \in FacetVertices(d, ifacet) : Bit(ientry, v) = b }

\* C14: ComputeNumActiveCubeFacets counts the facets that have a vertex whose
\* bit in ientry is 1 and a vertex whose bit is 0; it is 0 for the all-outside
\* and the all-inside index; and num_zeros + num_ones is the number of facet
\* vertices for every facet.
Inv_C14_ActiveFacets ==
  facet_call.op = "ComputeNumActiveCubeFacets" =>
    LET d == facet_call.d
        ientry == facet_call.ientry
        facets == 0 .. (2 * d) - 1
    IN /\ DOMAIN facet_call.facet_bits = facets
       /\ facet_call.num_active_facets =
            Cardinality({ ifacet \in facets :
                            /\ FacetVerticesWithBit(d, ientry, ifacet, 1) # {}
                            /\ FacetVerticesWithBit(d, ientry, ifacet, 0) # {} })
       /\ ientry \in { 0, (2 ^ (2 ^ d)) - 1 } => facet_call.num_active_facets = 0
       /\ \A ifacet \in facets :
            /\ facet_call.facet_bits[ifacet].num_zeros =
                 Cardinality(FacetVerticesWithBit(d, ientry, ifacet, 0))
            /\ facet_call.facet_bits[ifacet].num_ones =
                 Cardinality(FacetVerticesWithBit(d, ientry, ifacet, 1))
            /\ facet_call.facet_bits[ifacet].num_zeros + facet_call.facet_bits[ifacet].num_ones
                 = 2 ^ (d - 1)

\* Cube with vertex 0 alone positive: the three facets through vertex 0 are
\* active, each with one 1 bit and three 0 bits.
Witness_C14 ==
  /\ facet_call.op = "ComputeNumActiveCubeFacets"
  /\ facet_call.d = 3 /\ facet_call.ientry = 1
  /\ facet_call.num_active_facets = 3
  /\ facet_call.facet_bits[0] = [num_zeros |-> 3, num_ones |-> 1]
  /\ facet_call.facet_bits[3] = [num_zeros |-> 4, num_ones |-> 0]

\* Adjacent vertices of c, by position in its list, that the same-surface test
\* does not skip.
KeptAdjacent(c) ==
  { k \in 1 .. Len(vertex_adjacency_list[c]) :
      LET a == vertex_adjacency_list[c][k]
      IN /\ ivolv_list[c].on_lower => ivolv_list[a].on_lower
         /\ ivolv_list[c].on_upper => ivolv_list[a].on_upper }

\* Vertex a lies closer to vertex c than laplacian_smooth_limit, in the
\* coordinates vcoord.
CloserThanLimit(vcoord, c, a) ==
  LET sq(i) == FracMul(FracSub(vcoord[3 * c + i], vcoord[3 * a + i]),
                       FracSub(vcoord[3 * c + i], vcoord[3 * a + i]))
      dist2 == FracAdd(sq(0), FracAdd(sq(1), sq(2)))
  IN /\ laplacian_smooth_limit > 0
     /\ dist2.num < laplacian_smooth_limit * laplacian_smooth_limit * dist2.den

\* C15: the run makes 2*iteration+1 passes over the vertices; a step of pass k
\* overwrites the coordinates of its vertex only if the vertex is off both
\* isosurfaces (k even) or on one (k odd) and an adjacent vertex that the
\* same-surface test kept lies closer than laplacian_smooth_limit, so that
\* adj_count is at least 1 when it divides; the coordinates of every other
\* vertex are as they were before the step.
Inv_C15_SmoothStep ==
  /\ smooth_it <= 2 * iteration + 1
  /\ smooth_step.op = "visit" =>
       LET c == smooth_step.vertex
           k == smooth_step.pass
           n == Cardinality(DOMAIN vertex_adjacency_list)
           onSurface == ivolv_list[c].on_lower \/ ivolv_list[c].on_upper
       IN /\ smooth_step.count = k * n + c + 1
          /\ smooth_it = 2 * iteration + 1 => smooth_step.count = (2 * iteration + 1) * n
          /\ smooth_step.written <=>
               /\ IF k % 2 = 0 THEN ~onSurface ELSE onSurface
               /\ \E j \in KeptAdjacent(c) :
                    CloserThanLimit(smooth_step.before, c, vertex_adjacency_list[c][j])
          /\ smooth_step.written =>
               /\ smooth_step.adj_count >= 1
               /\ smooth_step.adj_count = Cardinality(KeptAdjacent(c))
          /\ \A j \in DOMAIN vertex_coord :
               (j \notin 3 * c .. 3 * c + 2 \/ ~smooth_step.written) =>
                 vertex_coord[j] = smooth_step.before[j]

\* A step of pass 1 that overwrites a vertex on an isosurface with two
\* adjacent vertices, one of them skipped by the same-surface test, and moves it.
Witness_C15 ==
  /\ smooth_step.op = "visit" /\ smooth_step.written
  /\ smooth_step.pass = 1 /\ iteration = 1
  /\ Len(vertex_adjacency_list[smooth_step.vertex]) = 2
  /\ smooth_step.adj_count = 1
  /\ vertex_coord # smooth_step.before

====
